---- MODULE Spec2Model ----
(***************************************************************************)
(* Model of src/app.py: the Semi-Tensor-Product demonstration page.        *)
(*                                                                         *)
(* Two specifications share the module:                                    *)
(*   SpecAlgebra  - the arithmetic of section 3 of app.py (get_lcm,        *)
(*                  stp_product_stepwise, stp_addition_stepwise) and the   *)
(*                  inline matrix addition of Mode B, applied once to      *)
(*                  operands drawn from a bounded family;                  *)
(*   SpecSession  - the page script of section 5 of app.py, rerun once per *)
(*                  user interaction, with its st.session_state cache.     *)
(*                                                                         *)
(* A matrix (numpy 2-D array) is a record [rows, cols, e] with e a         *)
(* function on (0..rows-1) \X (0..cols-1): indices are 0-based as in       *)
(* numpy.  Python integers are unbounded, and the array entries used here  *)
(* stay far below the 64-bit range, so no width is modelled.               *)
(***************************************************************************)
EXTENDS Integers, Sequences, FiniteSets, TLC

VARIABLES
    pc,             \* algebra: "ready" before the call, "done" after it
    fn,             \* algebra: name of the function that was called
    args,           \* algebra: [kind, a, b], the two arguments of the call
    ret,            \* algebra: what the call returned or raised
    mode,           \* session: value of the top radio (line 121)
    sub_mode,       \* session: value of the Mode B radio (line 268)
    widget,         \* session: values of the number inputs and sliders
    session_state,  \* session: st.session_state entries written by the script
    handed,         \* session: operands the last script run handed to STP
    reruns          \* session: number of reruns after the first script run

algebraVars == <<pc, fn, args, ret>>
sessionVars == <<mode, sub_mode, widget, session_state, handed, reruns>>
vars == <<pc, fn, args, ret, mode, sub_mode, widget, session_state, handed, reruns>>

----------------------------------------------------------------------------
(* Bounds of the explored input space.                                     *)

MaxD == 6          \* get_lcm / reconcile are called with -MaxD..MaxD
MaxDim == 3        \* operand matrices have 0..MaxDim rows and columns
MaxSeed == 1       \* operand entries are generated from seeds 0..MaxSeed
MaxReruns == 4     \* user interactions explored after the first script run

----------------------------------------------------------------------------
(* Python integer arithmetic.                                              *)

Abs(x) == IF x < 0 THEN -x ELSE x

\* math.gcd: greatest common divisor of |a| and |b|, gcd(0, 0) = 0.
RECURSIVE EuclidGcd(_, _)
EuclidGcd(a, b) == IF b = 0 THEN a ELSE EuclidGcd(b, a % b)

math_gcd(a, b) == EuclidGcd(Abs(a), Abs(b))

\* Python's a // b for b # 0: the quotient rounded towards minus infinity.
FloorDiv(a, b) ==
    LET q == Abs(a) \div Abs(b)
        r == Abs(a) % Abs(b)
    IN  IF (a >= 0) = (b > 0) \/ a = 0 THEN q
        ELSE IF r = 0 THEN -q ELSE -q - 1

\* Mutants of get_lcm.
get_lcm_no_gcd(a, b) ==
    IF a = 0 \/ b = 0 THEN 0 ELSE Abs(a * b)

get_lcm_as_max(a, b) ==
    IF a = 0 \/ b = 0 THEN 0 ELSE IF Abs(a) > Abs(b) THEN Abs(a) ELSE Abs(b)

\* def get_lcm(a, b)
get_lcm(a, b) ==
    IF a = 0 \/ b = 0 THEN 0 ELSE FloorDiv(Abs(a * b), math_gcd(a, b))

\* L = get_lcm(n, p); alpha = L // n; beta = L // p  (lines 47-49, 70-72).
\* A division by zero raises ZeroDivisionError at the first zero divisor.
reconcile(d1, d2) ==
    LET L == get_lcm(d1, d2)
    IN  IF d1 = 0 \/ d2 = 0
        THEN [raised |-> "ZeroDivisionError"]
        ELSE [raised |-> "none", LCM |-> L,
              alpha |-> FloorDiv(L, d1), beta |-> FloorDiv(L, d2)]

----------------------------------------------------------------------------
(* numpy on 2-D integer arrays.                                            *)

Idx(r, c) == (0 .. r - 1) \X (0 .. c - 1)

IsError(x) == "raised" \in DOMAIN x

\* Mutant of np_eye: an all-ones block in place of the identity.
np_eye_as_ones(k) ==
    [rows |-> k, cols |-> k, e |-> [ij \in Idx(k, k) |-> 1]]

\* np.eye(k, dtype=int)
np_eye(k) ==
    [rows |-> k, cols |-> k,
     e |-> [ij \in Idx(k, k) |-> IF ij[1] = ij[2] THEN 1 ELSE 0]]

\* Mutant of np_ones: an identity pattern in place of the all-ones block.
np_ones_as_eye(r, c) ==
    [rows |-> r, cols |-> c,
     e |-> [ij \in Idx(r, c) |-> IF ij[1] = ij[2] THEN 1 ELSE 0]]

\* np.ones((r, c), dtype=int)
np_ones(r, c) ==
    [rows |-> r, cols |-> c, e |-> [ij \in Idx(r, c) |-> 1]]

\* Mutant of np_kron: the rows of the left operand are not scaled.
np_kron_rows_kept(X, Y) ==
    [rows |-> X.rows, cols |-> X.cols * Y.cols,
     e |-> [ij \in Idx(X.rows, X.cols * Y.cols) |->
              X.e[<<ij[1], ij[2] \div Y.cols>>] * Y.e[<<0, ij[2] % Y.cols>>]]]

\* Mutant of np_kron: the left operand is tiled instead of block-expanded.
np_kron_tiled(X, Y) ==
    [rows |-> X.rows * Y.rows, cols |-> X.cols * Y.cols,
     e |-> [ij \in Idx(X.rows * Y.rows, X.cols * Y.cols) |->
              X.e[<<ij[1] % X.rows, ij[2] % X.cols>>]
                * Y.e[<<ij[1] \div X.rows, ij[2] \div X.cols>>]]]

\* np.kron(X, Y): block (i, j) of the result is X[i, j] * Y.
np_kron(X, Y) ==
    [rows |-> X.rows * Y.rows, cols |-> X.cols * Y.cols,
     e |-> [ij \in Idx(X.rows * Y.rows, X.cols * Y.cols) |->
              X.e[<<ij[1] \div Y.rows, ij[2] \div Y.cols>>]
                * Y.e[<<ij[1] % Y.rows, ij[2] % Y.cols>>]]]

\* sum of f[0] .. f[k-1]
RECURSIVE SumTo(_, _)
SumTo(f, k) == IF k = 0 THEN 0 ELSE SumTo(f, k - 1) + f[k - 1]

\* Mutant of np_dot: the last term of every inner product is dropped.
np_dot_short(X, Y) ==
    IF X.cols # Y.rows
    THEN [raised |-> "ValueError"]
    ELSE [rows |-> X.rows, cols |-> Y.cols,
          e |-> [ij \in Idx(X.rows, Y.cols) |->
                   SumTo([k \in 0 .. X.cols - 1 |->
                            X.e[<<ij[1], k>>] * Y.e[<<k, ij[2]>>]], X.cols - 1)]]

\* np.dot(X, Y) on 2-D arrays: ValueError unless X.cols = Y.rows.
np_dot(X, Y) ==
    IF X.cols # Y.rows
    THEN [raised |-> "ValueError"]
    ELSE [rows |-> X.rows, cols |-> Y.cols,
          e |-> [ij \in Idx(X.rows, Y.cols) |->
                   SumTo([k \in 0 .. X.cols - 1 |->
                            X.e[<<ij[1], k>>] * Y.e[<<k, ij[2]>>]], X.cols)]]

\* numpy broadcasting of one axis: equal lengths, or one of them is 1.
Broadcastable(a, b) == a = b \/ a = 1 \/ b = 1
BroadcastLen(a, b) == IF a = 1 THEN b ELSE a

\* Mutant of np_add: the second operand is subtracted.
np_add_as_sub(X, Y) ==
    IF ~ (Broadcastable(X.rows, Y.rows) /\ Broadcastable(X.cols, Y.cols))
    THEN [raised |-> "ValueError"]
    ELSE LET r == BroadcastLen(X.rows, Y.rows)
             c == BroadcastLen(X.cols, Y.cols)
         IN  [rows |-> r, cols |-> c,
              e |-> [ij \in Idx(r, c) |->
                  X.e[<<IF X.rows = 1 THEN 0 ELSE ij[1],
                        IF X.cols = 1 THEN 0 ELSE ij[2]>>]
                  - Y.e[<<IF Y.rows = 1 THEN 0 ELSE ij[1],
                          IF Y.cols = 1 THEN 0 ELSE ij[2]>>]]]

\* X + Y on 2-D arrays, with numpy broadcasting.
np_add(X, Y) ==
    IF ~ (Broadcastable(X.rows, Y.rows) /\ Broadcastable(X.cols, Y.cols))
    THEN [raised |-> "ValueError"]
    ELSE LET r == BroadcastLen(X.rows, Y.rows)
             c == BroadcastLen(X.cols, Y.cols)
         IN  [rows |-> r, cols |-> c,
              e |-> [ij \in Idx(r, c) |->
                  X.e[<<IF X.rows = 1 THEN 0 ELSE ij[1],
                        IF X.cols = 1 THEN 0 ELSE ij[2]>>]
                  + Y.e[<<IF Y.rows = 1 THEN 0 ELSE ij[1],
                          IF Y.cols = 1 THEN 0 ELSE ij[2]>>]]]

----------------------------------------------------------------------------
(* Section 3 of app.py: the STP functions.                                 *)

\* def stp_product_stepwise(A, B)
stp_product_stepwise(A, B) ==
    LET plan == reconcile(A.cols, B.rows)
    IN  IF plan.raised # "none" THEN plan
        ELSE
        LET A_kron == np_kron(A, np_eye(plan.alpha))
            B_kron == np_kron(B, np_eye(plan.beta))
            Result == np_dot(A_kron, B_kron)
        IN  IF IsError(Result) THEN Result
            ELSE [raised |-> "none", LCM |-> plan.LCM,
                  alpha |-> plan.alpha, beta |-> plan.beta,
                  A_kron |-> A_kron, B_kron |-> B_kron, Result |-> Result]

\* def stp_addition_stepwise(V1, V2)
stp_addition_stepwise(V1, V2) ==
    LET plan == reconcile(V1.rows, V2.rows)
    IN  IF plan.raised # "none" THEN plan
        ELSE
        LET V1_kron == np_kron(V1, np_ones(plan.alpha, 1))
            V2_kron == np_kron(V2, np_ones(plan.beta, 1))
            Result == np_add(V1_kron, V2_kron)
        IN  IF IsError(Result) THEN Result
            ELSE [raised |-> "none", LCM |-> plan.LCM,
                  alpha |-> plan.alpha, beta |-> plan.beta,
                  V1_kron |-> V1_kron, V2_kron |-> V2_kron, Result |-> Result]

\* Mode B, sub-mode 1: the inline matrix addition (lines 295-296, 315-325).
Res_add(A, B) ==
    LET lcm_row == get_lcm(A.rows, B.rows)
        lcm_col == get_lcm(A.cols, B.cols)
    IN  IF A.rows = 0 \/ A.cols = 0 \/ B.rows = 0 \/ B.cols = 0
        THEN [raised |-> "ZeroDivisionError"]
        ELSE
        LET alpha_r == FloorDiv(lcm_row, A.rows)
            alpha_c == FloorDiv(lcm_col, A.cols)
            beta_r == FloorDiv(lcm_row, B.rows)
            beta_c == FloorDiv(lcm_col, B.cols)
            A_exp == np_kron(A, np_ones(alpha_r, alpha_c))
            B_exp == np_kron(B, np_ones(beta_r, beta_c))
            Result == np_add(A_exp, B_exp)
        IN  IF IsError(Result) THEN Result
            ELSE [raised |-> "none", lcm_row |-> lcm_row, lcm_col |-> lcm_col,
                  alpha_r |-> alpha_r, alpha_c |-> alpha_c,
                  beta_r |-> beta_r, beta_c |-> beta_c,
                  A_exp |-> A_exp, B_exp |-> B_exp, Result |-> Result]

----------------------------------------------------------------------------
(* SpecAlgebra: one call of one function on operands from a bounded family *)

\* Entry number k (row-major) of the operand generated from seed s.
Entry(s, k) == (s + 1) * (k + 1)

Matrix(r, c, s) ==
    [rows |-> r, cols |-> c,
     e |-> [ij \in Idx(r, c) |-> Entry(s, ij[1] * c + ij[2])]]

\* The array written row by row, e.g. FromRows(<<<<1, 2>>, <<3, 4>>>>).
FromRows(rs) ==
    [rows |-> Len(rs), cols |-> Len(rs[1]),
     e |-> [ij \in Idx(Len(rs), Len(rs[1])) |-> rs[ij[1] + 1][ij[2] + 1]]]

Scenario1A == FromRows(<<<<1, 2>>, <<3, 4>>>>)
Scenario1B == FromRows(<<<<1, 0>>, <<0, 1>>, <<1, 1>>>>)
Scenario2V1 == FromRows(<<<<10>>, <<20>>>>)
Scenario2V2 == FromRows(<<<<1>>, <<2>>, <<3>>>>)

Matrices ==
    { Matrix(r, c, s) : r \in 0 .. MaxDim, c \in 0 .. MaxDim, s \in 0 .. MaxSeed }

OperandPairs ==
    { [kind |-> "mats", a |-> X, b |-> Y] : X \in Matrices, Y \in Matrices }
    \cup { [kind |-> "mats", a |-> Scenario1A, b |-> Scenario1B],
           [kind |-> "mats", a |-> Scenario2V1, b |-> Scenario2V2],
           [kind |-> "mats", a |-> Scenario2V2, b |-> Scenario2V1] }

DimPairs ==
    { [kind |-> "dims", a |-> d1, b |-> d2] : d1 \in -MaxD .. MaxD, d2 \in -MaxD .. MaxD }

CallGetLcm ==
    /\ pc = "ready" /\ args.kind = "dims"
    /\ fn' = "get_lcm"
    /\ ret' = [raised |-> "none", value |-> get_lcm(args.a, args.b)]
    /\ pc' = "done"
    /\ UNCHANGED <<args, sessionVars>>

CallReconcile ==
    /\ pc = "ready" /\ args.kind = "dims"
    /\ fn' = "reconcile"
    /\ ret' = reconcile(args.a, args.b)
    /\ pc' = "done"
    /\ UNCHANGED <<args, sessionVars>>

CallProduct ==
    /\ pc = "ready" /\ args.kind = "mats"
    /\ fn' = "stp_product_stepwise"
    /\ ret' = stp_product_stepwise(args.a, args.b)
    /\ pc' = "done"
    /\ UNCHANGED <<args, sessionVars>>

CallAddition ==
    /\ pc = "ready" /\ args.kind = "mats"
    /\ fn' = "stp_addition_stepwise"
    /\ ret' = stp_addition_stepwise(args.a, args.b)
    /\ pc' = "done"
    /\ UNCHANGED <<args, sessionVars>>

CallResAdd ==
    /\ pc = "ready" /\ args.kind = "mats"
    /\ fn' = "Res_add"
    /\ ret' = Res_add(args.a, args.b)
    /\ pc' = "done"
    /\ UNCHANGED <<args, sessionVars>>

----------------------------------------------------------------------------
(* Section 5 of app.py: the page script and its st.session_state cache.    *)
(*                                                                         *)
(* A cached random array is represented by its shape <<rows, cols>>: the   *)
(* script never branches on an entry.  An absent key is << >>.             *)

NumberInputMin == 1
NumberInputMax == 5
SliderMin == 2
SliderMax == 20

Modes == {"Mode A", "Mode B"}
SubModes == {"1. matrix addition", "2. fusion"}

\* The values the widgets are created with.
WidgetDefaults ==
    [ma |-> 2, na |-> 2, pb |-> 3, qb |-> 2,
     ma_add |-> 2, na_add |-> 2, mb_add |-> 3, nb_add |-> 2,
     dim_face |-> 4, dim_finger |-> 3]

EmptySession ==
    [A |-> << >>, B |-> << >>, dims |-> << >>,
     A_add |-> << >>, B_add |-> << >>, dims_add |-> << >>,
     v_face |-> << >>, v_finger |-> << >>]

\* Mode A, lines 151-164.
run_mode_a(w, ss, pressed) ==
    LET cur == <<w.ma, w.na, w.pb, w.qb>>
        gen(s) == [s EXCEPT !.A = <<w.ma, w.na>>, !.B = <<w.pb, w.qb>>,
                            !.dims = cur]
        s1 == IF pressed THEN gen(ss) ELSE ss
        s2 == IF s1.A = << >> \/ s1.dims = << >> \/ s1.dims # cur
              THEN gen(s1) ELSE s1
    IN  [session_state |-> s2,
         handed |-> [fn |-> "stp_product_stepwise", a |-> s2.A, b |-> s2.B]]

\* Mode B matrix addition, lines 300-312.
run_mode_b_add(w, ss, pressed) ==
    LET cur == <<w.ma_add, w.na_add, w.mb_add, w.nb_add>>
        gen(s) == [s EXCEPT !.A_add = <<w.ma_add, w.na_add>>,
                            !.B_add = <<w.mb_add, w.nb_add>>,
                            !.dims_add = cur]
        s1 == IF pressed THEN gen(ss) ELSE ss
        s2 == IF s1.A_add = << >> \/ s1.dims_add = << >> \/ s1.dims_add # cur
              THEN gen(s1) ELSE s1
    IN  [session_state |-> s2,
         handed |-> [fn |-> "Res_add", a |-> s2.A_add, b |-> s2.B_add]]

\* Mode B biometric fusion, lines 386-398.
run_mode_b_fusion(w, ss, pressed) ==
    LET gen(s) == [s EXCEPT !.v_face = <<w.dim_face, 1>>,
                            !.v_finger = <<w.dim_finger, 1>>]
        s1 == IF pressed THEN gen(ss) ELSE ss
        s2 == IF s1.v_face = << >> \/ s1.v_face[1] # w.dim_face
              THEN gen(s1) ELSE s1
    IN  [session_state |-> s2,
         handed |-> [fn |-> "stp_addition_stepwise",
                     a |-> s2.v_face, b |-> s2.v_finger]]

\* One execution of the script, top to bottom (lines 121-416).
script_run(md, sub, w, ss, pressed) ==
    IF md = "Mode A" THEN run_mode_a(w, ss, pressed)
    ELSE IF sub = "1. matrix addition" THEN run_mode_b_add(w, ss, pressed)
    ELSE run_mode_b_fusion(w, ss, pressed)

\* A user interaction reruns the script with the new widget values.
Rerun(md, sub, w, pressed) ==
    LET out == script_run(md, sub, w, session_state, pressed)
    IN  /\ reruns < MaxReruns
        /\ reruns' = reruns + 1
        /\ mode' = md
        /\ sub_mode' = sub
        /\ widget' = w
        /\ session_state' = out.session_state
        /\ handed' = out.handed
        /\ UNCHANGED algebraVars

\* The top radio is switched.  Widgets that are not rendered in a run lose
\* their state, so every widget of the page shown next starts from its
\* default, the Mode B radio included.
SelectMode ==
    \E md \in Modes \ {mode} :
        Rerun(md, "1. matrix addition", WidgetDefaults, FALSE)

\* The Mode B radio is switched.
SelectSubMode ==
    /\ mode = "Mode B"
    /\ \E sub \in SubModes \ {sub_mode} :
        Rerun(mode, sub, WidgetDefaults, FALSE)

\* One of the four number inputs of Mode A is changed.
ChangeDimsA ==
    /\ mode = "Mode A"
    /\ \E k \in {"ma", "na", "pb", "qb"} :
       \E v \in (NumberInputMin .. NumberInputMax) \ {widget[k]} :
            Rerun(mode, sub_mode, [widget EXCEPT ![k] = v], FALSE)

\* "generate random matrices and compute" is pressed (line 151).
PressGenerateA ==
    /\ mode = "Mode A"
    /\ Rerun(mode, sub_mode, widget, TRUE)

\* One of the four number inputs of the Mode B matrix addition is changed.
ChangeDimsAdd ==
    /\ mode = "Mode B" /\ sub_mode = "1. matrix addition"
    /\ \E k \in {"ma_add", "na_add", "mb_add", "nb_add"} :
       \E v \in (NumberInputMin .. NumberInputMax) \ {widget[k]} :
            Rerun(mode, sub_mode, [widget EXCEPT ![k] = v], FALSE)

\* "generate random matrices A and B" is pressed (line 300).
PressGenerateAdd ==
    /\ mode = "Mode B" /\ sub_mode = "1. matrix addition"
    /\ Rerun(mode, sub_mode, widget, TRUE)

\* One of the two sliders of the biometric fusion is moved.
MoveSlider ==
    /\ mode = "Mode B" /\ sub_mode = "2. fusion"
    /\ \E k \in {"dim_face", "dim_finger"} :
       \E v \in (SliderMin .. SliderMax) \ {widget[k]} :
            Rerun(mode, sub_mode, [widget EXCEPT ![k] = v], FALSE)

\* "refresh features" is pressed (line 390).
PressRefresh ==
    /\ mode = "Mode B" /\ sub_mode = "2. fusion"
    /\ Rerun(mode, sub_mode, widget, TRUE)

----------------------------------------------------------------------------
(* The two specifications.                                                 *)

\* The session after the first script run: Mode A with the default widgets.
FirstRun == script_run("Mode A", "1. matrix addition", WidgetDefaults, EmptySession, FALSE)

SessionStart ==
    /\ mode = "Mode A"
    /\ sub_mode = "1. matrix addition"
    /\ widget = WidgetDefaults
    /\ session_state = FirstRun.session_state
    /\ handed = FirstRun.handed
    /\ reruns = 0

NoCall ==
    /\ pc = "ready"
    /\ fn = "none"
    /\ args = [kind |-> "none"]
    /\ ret = [raised |-> "none"]

InitAlgebra ==
    /\ pc = "ready"
    /\ fn = "none"
    /\ ret = [raised |-> "none"]
    /\ \/ args \in DimPairs
       \/ args \in OperandPairs
    /\ SessionStart

NextAlgebra ==
    \/ CallGetLcm
    \/ CallReconcile
    \/ CallProduct
    \/ CallAddition
    \/ CallResAdd

SpecAlgebra == InitAlgebra /\ [][NextAlgebra]_vars

InitSession == NoCall /\ SessionStart

NextSession ==
    \/ SelectMode
    \/ SelectSubMode
    \/ ChangeDimsA
    \/ PressGenerateA
    \/ ChangeDimsAdd
    \/ PressGenerateAdd
    \/ MoveSlider
    \/ PressRefresh

SpecSession == InitSession /\ [][NextSession]_vars

----------------------------------------------------------------------------
(* Properties.                                                             *)

\* L is the least common multiple of the positive integers a and b.
IsLcm(L, a, b) ==
    /\ L > 0 /\ L % a = 0 /\ L % b = 0
    /\ \A k \in 1 .. L - 1 : ~ (k % a = 0 /\ k % b = 0)

PositiveDims(X) == X.rows >= 1 /\ X.cols >= 1
ColumnVector(X) == X.rows >= 1 /\ X.cols = 1

Called(f) == pc = "done" /\ fn = f

\* The ordinary matrix product, entry (i, j): sum over k of A[i,k] * B[k,j].
RECURSIVE RowByCol(_, _, _, _, _)
RowByCol(A, B, i, j, k) ==
    IF k < 0 THEN 0 ELSE A.e[<<i, k>>] * B.e[<<k, j>>] + RowByCol(A, B, i, j, k - 1)

\* C1: for positive d1, d2 the reconciliation returns the least common
\* multiple L of d1 and d2 and positive factors alpha, beta with
\* alpha * d1 = L and beta * d2 = L; reconcile(4, 6) gives 12, 3, 2.
C1_ReconcileIsLeastCommonMultiple ==
    (Called("reconcile") /\ args.a > 0 /\ args.b > 0) =>
        /\ ret.raised = "none"
        /\ IsLcm(ret.LCM, args.a, args.b)
        /\ ret.alpha > 0 /\ ret.beta > 0
        /\ ret.alpha * args.a = ret.LCM
        /\ ret.beta * args.b = ret.LCM
        /\ (args.a = 4 /\ args.b = 6) =>
               (ret.LCM = 12 /\ ret.alpha = 3 /\ ret.beta = 2)

C1_Witness ==
    /\ Called("reconcile") /\ args.a = 4 /\ args.b = 6
    /\ ret = [raised |-> "none", LCM |-> 12, alpha |-> 3, beta |-> 2]

\* C2 as stated: for operands with positive dimensions the product returns
\* Aexp of shape m x L, Bexp of shape L x q and Result of shape m x q,
\* L = lcm(n, p).
C2_ShapesAsClaimed ==
    (Called("stp_product_stepwise") /\ PositiveDims(args.a) /\ PositiveDims(args.b)) =>
        /\ ret.raised = "none"
        /\ IsLcm(ret.LCM, args.a.cols, args.b.rows)
        /\ ret.A_kron.rows = args.a.rows /\ ret.A_kron.cols = ret.LCM
        /\ ret.B_kron.rows = ret.LCM /\ ret.B_kron.cols = args.b.cols
        /\ ret.Result.rows = args.a.rows /\ ret.Result.cols = args.b.cols

\* C2 amended: for operands with positive dimensions the product returns
\* Aexp of shape (m*alpha) x L, Bexp of shape L x (q*beta) and Result of
\* shape (m*alpha) x (q*beta), with L = lcm(n, p), alpha = L/n, beta = L/p;
\* for a 2x2 A and a 3x2 B, Aexp is 6x6, Bexp is 6x4 and Result is 6x4.
C2_ShapesOfProduct ==
    (Called("stp_product_stepwise") /\ PositiveDims(args.a) /\ PositiveDims(args.b)) =>
        /\ ret.raised = "none"
        /\ IsLcm(ret.LCM, args.a.cols, args.b.rows)
        /\ ret.alpha * args.a.cols = ret.LCM
        /\ ret.beta * args.b.rows = ret.LCM
        /\ ret.A_kron.rows = args.a.rows * ret.alpha
        /\ ret.A_kron.cols = ret.LCM
        /\ ret.B_kron.rows = ret.LCM
        /\ ret.B_kron.cols = args.b.cols * ret.beta
        /\ ret.Result.rows = args.a.rows * ret.alpha
        /\ ret.Result.cols = args.b.cols * ret.beta
        /\ DOMAIN ret.Result.e = Idx(args.a.rows * ret.alpha, args.b.cols * ret.beta)
        /\ (/\ args.a.rows = 2 /\ args.a.cols = 2
            /\ args.b.rows = 3 /\ args.b.cols = 2) =>
               /\ ret.A_kron.rows = 6 /\ ret.A_kron.cols = 6
               /\ ret.B_kron.rows = 6 /\ ret.B_kron.cols = 4
               /\ ret.Result.rows = 6 /\ ret.Result.cols = 4

C2_Witness ==
    /\ Called("stp_product_stepwise")
    /\ args.a = Scenario1A /\ args.b = Scenario1B
    /\ ret.raised = "none"
    /\ ret.A_kron.rows = 6 /\ ret.A_kron.cols = 6
    /\ ret.B_kron.rows = 6 /\ ret.B_kron.cols = 4
    /\ ret.Result.rows = 6 /\ ret.Result.cols = 4

\* C3: when cols(A) = rows(B) the product has alpha = beta = 1, Aexp = A,
\* Bexp = B and Result is the ordinary matrix product of A and B.
C3_MatchingDimsGiveOrdinaryProduct ==
    (/\ Called("stp_product_stepwise")
     /\ PositiveDims(args.a) /\ PositiveDims(args.b)
     /\ args.a.cols = args.b.rows) =>
        /\ ret.raised = "none"
        /\ ret.alpha = 1 /\ ret.beta = 1
        /\ ret.A_kron = args.a
        /\ ret.B_kron = args.b
        /\ ret.Result.rows = args.a.rows
        /\ ret.Result.cols = args.b.cols
        /\ DOMAIN ret.Result.e = Idx(args.a.rows, args.b.cols)
        /\ \A ij \in Idx(args.a.rows, args.b.cols) :
              ret.Result.e[ij] = RowByCol(args.a, args.b, ij[1], ij[2], args.a.cols - 1)

C3_Witness ==
    /\ Called("stp_product_stepwise")
    /\ args.a = Scenario1A /\ args.b = Matrix(2, 2, 0)
    /\ ret.raised = "none"
    /\ ret.alpha = 1 /\ ret.beta = 1
    /\ ret.Result = FromRows(<<<<7, 10>>, <<15, 22>>>>)

\* C4: for column vectors V1 (length m) and V2 (length p) the addition
\* returns V1exp, V2exp and Result of length L = lcm(m, p), with
\* V1exp[i] = V1[i div alpha], V2exp[i] = V2[i div beta] and
\* Result[i] = V1[i div alpha] + V2[i div beta]; [10,20] and [1,2,3] give
\* [10,10,10,20,20,20], [1,1,2,2,3,3] and [11,11,12,22,23,23].
C4_VectorAdditionBroadcasts ==
    (Called("stp_addition_stepwise") /\ ColumnVector(args.a) /\ ColumnVector(args.b)) =>
        /\ ret.raised = "none"
        /\ IsLcm(ret.LCM, args.a.rows, args.b.rows)
        /\ ret.alpha * args.a.rows = ret.LCM
        /\ ret.beta * args.b.rows = ret.LCM
        /\ ret.V1_kron.rows = ret.LCM /\ ret.V1_kron.cols = 1
        /\ ret.V2_kron.rows = ret.LCM /\ ret.V2_kron.cols = 1
        /\ ret.Result.rows = ret.LCM /\ ret.Result.cols = 1
        /\ DOMAIN ret.Result.e = Idx(ret.LCM, 1)
        /\ \A i \in 0 .. ret.LCM - 1 :
              /\ ret.V1_kron.e[<<i, 0>>] = args.a.e[<<i \div ret.alpha, 0>>]
              /\ ret.V2_kron.e[<<i, 0>>] = args.b.e[<<i \div ret.beta, 0>>]
              /\ ret.Result.e[<<i, 0>>] =
                    args.a.e[<<i \div ret.alpha, 0>>] + args.b.e[<<i \div ret.beta, 0>>]
        /\ (args.a = Scenario2V1 /\ args.b = Scenario2V2) =>
              /\ ret.V1_kron = FromRows(<<<<10>>, <<10>>, <<10>>, <<20>>, <<20>>, <<20>>>>)
              /\ ret.V2_kron = FromRows(<<<<1>>, <<1>>, <<2>>, <<2>>, <<3>>, <<3>>>>)
              /\ ret.Result = FromRows(<<<<11>>, <<11>>, <<12>>, <<22>>, <<23>>, <<23>>>>)

C4_Witness ==
    /\ Called("stp_addition_stepwise")
    /\ args.a = Scenario2V1 /\ args.b = Scenario2V2
    /\ ret.raised = "none"
    /\ ret.LCM = 6 /\ ret.alpha = 3 /\ ret.beta = 2
    /\ ret.Result = FromRows(<<<<11>>, <<11>>, <<12>>, <<22>>, <<23>>, <<23>>>>)

\* C5 as stated: a zero or negative dimension makes the reconciliation
\* signal an error; it never returns a value (any raised error is accepted
\* here as the signal).
C5_NonPositiveDimensionRaises ==
    /\ (/\ pc = "done" /\ fn \in {"get_lcm", "reconcile"}
        /\ (args.a <= 0 \/ args.b <= 0)) => ret.raised # "none"
    /\ (/\ pc = "done" /\ fn \in {"stp_product_stepwise", "stp_addition_stepwise"}
        /\ ~ (PositiveDims(args.a) /\ PositiveDims(args.b))) => ret.raised # "none"

\* C6: in Aexp every alpha x alpha block (i, j) carries A[i,j] on its
\* diagonal and 0 elsewhere; likewise Bexp with beta.
C6_BlockDiagonalExpansion ==
    (Called("stp_product_stepwise") /\ PositiveDims(args.a) /\ PositiveDims(args.b)) =>
        /\ ret.raised = "none"
        /\ \A ij \in Idx(args.a.rows, args.a.cols) :
           \A rc \in Idx(ret.alpha, ret.alpha) :
              ret.A_kron.e[<<ij[1] * ret.alpha + rc[1], ij[2] * ret.alpha + rc[2]>>]
                 = IF rc[1] = rc[2] THEN args.a.e[ij] ELSE 0
        /\ \A ij \in Idx(args.b.rows, args.b.cols) :
           \A rc \in Idx(ret.beta, ret.beta) :
              ret.B_kron.e[<<ij[1] * ret.beta + rc[1], ij[2] * ret.beta + rc[2]>>]
                 = IF rc[1] = rc[2] THEN args.b.e[ij] ELSE 0

C6_Witness ==
    /\ Called("stp_product_stepwise")
    /\ args.a = Scenario1A /\ args.b = Scenario1B
    /\ ret.raised = "none"
    /\ ret.alpha = 3 /\ ret.beta = 2
    /\ ret.A_kron.e[<<3, 0>>] = 3 /\ ret.A_kron.e[<<3, 1>>] = 0
    /\ ret.A_kron.e[<<5, 2>>] = 3 /\ ret.A_kron.e[<<5, 5>>] = 4

\* C7: the addition of column vectors is commutative: swapping the operands
\* gives the same LCM and Result, with alpha/beta and V1_kron/V2_kron
\* swapped.
C7_VectorAdditionCommutes ==
    (Called("stp_addition_stepwise") /\ ColumnVector(args.a) /\ ColumnVector(args.b)) =>
        LET swapped == stp_addition_stepwise(args.b, args.a)
        IN  /\ ret.raised = "none" /\ swapped.raised = "none"
            /\ swapped.Result = ret.Result
            /\ swapped.LCM = ret.LCM
            /\ swapped.alpha = ret.beta /\ swapped.beta = ret.alpha
            /\ swapped.V1_kron = ret.V2_kron
            /\ swapped.V2_kron = ret.V1_kron

C7_Witness ==
    /\ Called("stp_addition_stepwise")
    /\ args.a = Matrix(3, 1, 1) /\ args.b = Matrix(2, 1, 0)
    /\ ret.raised = "none"
    /\ ret.alpha = 2 /\ ret.beta = 3
    /\ stp_addition_stepwise(args.b, args.a).alpha = 3
    /\ stp_addition_stepwise(args.b, args.a).Result = ret.Result

\* C8: the matrix addition of Mode B gives Result of shape
\* lcm(ma, mb) x lcm(na, nb) with
\* Result[i][j] = A[i div alphaR][j div alphaC] + B[i div betaR][j div betaC];
\* with equal shapes all four factors are 1 and Result is A + B.
C8_MatrixAdditionBroadcasts ==
    (Called("Res_add") /\ PositiveDims(args.a) /\ PositiveDims(args.b)) =>
        /\ ret.raised = "none"
        /\ IsLcm(ret.lcm_row, args.a.rows, args.b.rows)
        /\ IsLcm(ret.lcm_col, args.a.cols, args.b.cols)
        /\ ret.Result.rows = ret.lcm_row /\ ret.Result.cols = ret.lcm_col
        /\ DOMAIN ret.Result.e = Idx(ret.lcm_row, ret.lcm_col)
        /\ \A ij \in Idx(ret.lcm_row, ret.lcm_col) :
              ret.Result.e[ij] =
                 args.a.e[<<ij[1] \div ret.alpha_r, ij[2] \div ret.alpha_c>>]
                 + args.b.e[<<ij[1] \div ret.beta_r, ij[2] \div ret.beta_c>>]
        /\ (args.a.rows = args.b.rows /\ args.a.cols = args.b.cols) =>
              /\ ret.alpha_r = 1 /\ ret.alpha_c = 1
              /\ ret.beta_r = 1 /\ ret.beta_c = 1
              /\ ret.Result.rows = args.a.rows /\ ret.Result.cols = args.a.cols
              /\ \A ij \in Idx(args.a.rows, args.a.cols) :
                    ret.Result.e[ij] = args.a.e[ij] + args.b.e[ij]

C8_Witness ==
    /\ Called("Res_add")
    /\ args.a = Scenario1A /\ args.b = Scenario1B
    /\ ret.raised = "none"
    /\ ret.alpha_r = 3 /\ ret.alpha_c = 1 /\ ret.beta_r = 2 /\ ret.beta_c = 1
    /\ ret.Result = FromRows(<<<<2, 2>>, <<2, 2>>, <<1, 3>>,
                               <<3, 5>>, <<4, 5>>, <<4, 5>>>>)

\* C9: with positive dimensions the expanded shapes match at the combining
\* step: in the product cols(A_kron) = rows(B_kron) = L, in the addition of
\* column vectors V1_kron and V2_kron are both L x 1; no shape error arises.
C9_ExpandedShapesMatch ==
    /\ (Called("stp_product_stepwise") /\ PositiveDims(args.a) /\ PositiveDims(args.b)) =>
          /\ ret.raised = "none"
          /\ IsLcm(ret.LCM, args.a.cols, args.b.rows)
          /\ ret.A_kron.cols = ret.LCM
          /\ ret.B_kron.rows = ret.LCM
    /\ (Called("stp_addition_stepwise") /\ ColumnVector(args.a) /\ ColumnVector(args.b)) =>
          /\ ret.raised = "none"
          /\ IsLcm(ret.LCM, args.a.rows, args.b.rows)
          /\ <<ret.V1_kron.rows, ret.V1_kron.cols>> = <<ret.LCM, 1>>
          /\ <<ret.V2_kron.rows, ret.V2_kron.cols>> = <<ret.LCM, 1>>

C9_Witness ==
    /\ Called("stp_product_stepwise")
    /\ args.a.rows = 1 /\ args.a.cols = 3 /\ args.b.rows = 2 /\ args.b.cols = 1
    /\ ret.raised = "none"
    /\ ret.A_kron.cols = 6 /\ ret.B_kron.rows = 6

\* C10 as stated: after any sequence of reruns the operands handed to the
\* STP computation have exactly the currently selected dimensions.
C10_HandedOperandsHaveSelectedDims ==
    /\ handed.fn = "stp_product_stepwise" =>
          /\ handed.a = <<widget.ma, widget.na>>
          /\ handed.b = <<widget.pb, widget.qb>>
    /\ handed.fn = "Res_add" =>
          /\ handed.a = <<widget.ma_add, widget.na_add>>
          /\ handed.b = <<widget.mb_add, widget.nb_add>>
    /\ handed.fn = "stp_addition_stepwise" =>
          /\ handed.a = <<widget.dim_face, 1>>
          /\ handed.b = <<widget.dim_finger, 1>>

====
